---- MODULE Spec2Model ----
(***************************************************************************)
(* A model of StoryStore (lib/client-api/src/story_store.ts): the runtime  *)
(* registry of stories, its metadata levels, argument state, selection and *)
(* the events it emits on its channel.                                     *)
(*                                                                         *)
(* JavaScript values are modelled as tagged records: Leaf(v) is a          *)
(* primitive, written as the text of its literal ("true", "0", "1"), or a  *)
(* function value, written "fn:<name>"; Obj(m) is a plain object whose     *)
(* mapping m is a TLA+ function from keys to values.  Parameters, args and *)
(* globalArgs are such mappings.  `_stories` is a JavaScript object keyed  *)
(* on non-numeric story ids, whose keys enumerate in insertion order: it   *)
(* is modelled as a sequence of records with pairwise distinct ids.        *)
(***************************************************************************)
EXTENDS Integers, Sequences, FiniteSets, TLC

VARIABLES
    _configuring,        \* this._configuring
    _channel,            \* TRUE when params.channel is a channel, FALSE when it is null
    _globalArgs,         \* this._globalArgs
    _globalMetadata,     \* this._globalMetadata: [parameters, decorators]
    _kinds,              \* this._kinds: kind name -> [order, parameters, decorators]
    _stories,            \* this._stories, in key (insertion) order
    _parameterEnhancers, \* this._parameterEnhancers
    _revision,           \* this._revision
    _selection,          \* this._selection
    _error,              \* this._error
    emitted,             \* what the channel has received, oldest first
    cleanCalls,          \* cleanCalls[h]: the number of clean() calls on the h-th HooksContext created
    metaCalls,           \* observer: the metadata additions made so far, oldest first
    registrationOrder,   \* observer: the story ids in the order of their first registration
    captured,            \* captured[h]: what the map the h-th record's storyFn closed over holds under the record's id
    getDecoratedCache,   \* getDecoratedCache[h]: the memoized getDecorated of the h-th record holds its result
    applyCalls,          \* applyCalls[h]: the number of applyDecorators calls made for the h-th record
    rendered,            \* the context the most recent storyFn call passed to the decorated function
    lastCall,            \* the most recent call of the store's API
    thrown               \* the error that call raised, "none" when it returned

vars == <<_configuring, _channel, _globalArgs, _globalMetadata, _kinds, _stories,
          _parameterEnhancers, _revision, _selection, _error, emitted, cleanCalls,
          captured, getDecoratedCache, applyCalls, rendered,
          metaCalls, registrationOrder, lastCall, thrown>>

\* the state of the closures addStory creates
closures == <<captured, getDecoratedCache, applyCalls, rendered>>

-----------------------------------------------------------------------------
(* Bounds of the model.                                                    *)

\* HooksContext objects created, i.e. addStory calls that got past the guard
MaxHooks == 3
\* emissions the channel records
MaxEmitted == 4
\* metadata additions recorded
MaxMetaCalls == 3
\* incrementRevision calls
MaxRevision == 1
\* argument changes between the calls of a storyFn
MaxArgChanges == 2

-----------------------------------------------------------------------------
(* JavaScript values.                                                      *)

EmptyMap == [k \in {} |-> 0]

Leaf(v) == [leaf |-> TRUE, v |-> v, m |-> EmptyMap]

Obj(m) == [leaf |-> FALSE, v |-> "", m |-> m]

\* the literals JavaScript coerces to false
FalsyLiterals == {"false", "0", "", "null", "undefined", "NaN"}

Truthy(value) == IF value.leaf THEN value.v \notin FalsyLiterals ELSE TRUE

\* obj[key] is defined and truthy
TruthyAt(obj, key) == key \in DOMAIN obj /\ Truthy(obj[key])

\* Spread replacing a by b instead of merging
Spread_Replace(a, b) == b

\* { ...a, ...b }
Spread(a, b) ==
    [k \in (DOMAIN a) \cup (DOMAIN b) |-> IF k \in DOMAIN b THEN b[k] ELSE a[k]]

\* combineParameters of two mappings: a deep merge in which the later mapping
\* wins, nested mappings merge recursively and anything else is replaced
RECURSIVE Combine2(_, _)
Combine2(a, b) ==
    [k \in (DOMAIN a) \cup (DOMAIN b) |->
        IF k \notin DOMAIN b THEN a[k]
        ELSE IF k \notin DOMAIN a THEN b[k]
        ELSE IF ~a[k].leaf /\ ~b[k].leaf THEN Obj(Combine2(a[k].m, b[k].m))
        ELSE b[k]]

\* combineParameters(a, b, c)
combineParameters(a, b, c) == Combine2(Combine2(a, b), c)

-----------------------------------------------------------------------------
(* Sequences as ordered maps and lists.                                    *)

RECURSIVE SeqFilterKind(_, _)
\* the entries of `stories` whose kind is not `kind`, order kept (lines 312-316)
SeqFilterKind(stories, kind) ==
    IF stories = <<>> THEN <<>>
    ELSE IF Head(stories).kind # kind
         THEN <<Head(stories)>> \o SeqFilterKind(Tail(stories), kind)
         ELSE SeqFilterKind(Tail(stories), kind)

Ids(stories) == {stories[i].id : i \in 1..Len(stories)}

\* the position of key id in the object, 0 when it is not a key
IndexOf(stories, id) ==
    IF id \in Ids(stories)
    THEN CHOOSE i \in 1..Len(stories) : stories[i].id = id
    ELSE 0

\* delete stories[id]
DeleteKey(stories, id) == SelectSeq(stories, LAMBDA s : s.id # id)

\* SetKey adding an entry also when the key exists
SetKey_Append(stories, record) == Append(stories, record)

\* stories[id] = record: an existing key keeps its position, a new key goes last
SetKey(stories, record) ==
    IF record.id \in Ids(stories)
    THEN [stories EXCEPT ![IndexOf(stories, record.id)] = record]
    ELSE Append(stories, record)

-----------------------------------------------------------------------------
(* Queries.                                                                *)

\* isStoryDocsOnly testing that the key is present instead of its value
isStoryDocsOnly_KeyPresent(parameters) == "docsOnly" \in DOMAIN parameters

\* isStoryDocsOnly: parameters && parameters.docsOnly, as a condition
isStoryDocsOnly(parameters) == TruthyAt(parameters, "docsOnly")

\* includeStory(story, options), options = { includeDocsOnly }
includeStory(story, includeDocsOnly) ==
    IF includeDocsOnly THEN TRUE ELSE ~isStoryDocsOnly(story.parameters)

\* toExtracted: the record without its function-valued fields and its hooks
toExtracted(story) ==
    [id |-> story.id, kind |-> story.kind, name |-> story.name, story |-> story.name,
     parameters |-> story.parameters, args |-> story.args]

\* fromId of a key that exists: { ...data, globalArgs }
fromId(story, globalArgs) ==
    [id |-> story.id, kind |-> story.kind, name |-> story.name, story |-> story.name,
     parameters |-> story.parameters, args |-> story.args, hooks |-> story.hooks,
     decorators |-> story.decorators, globalArgs |-> globalArgs]

RECURSIVE MapFromId(_, _)
MapFromId(stories, globalArgs) ==
    IF stories = <<>> THEN <<>>
    ELSE <<fromId(Head(stories), globalArgs)>> \o MapFromId(Tail(stories), globalArgs)

\* raw(options): every record addStory stores has getDecorated
raw(stories, globalArgs, includeDocsOnly) ==
    MapFromId(SelectSeq(stories, LAMBDA s : includeStory(s, includeDocsOnly)), globalArgs)

\* the rank of an id under String.prototype.localeCompare, for the ids of the model
IdRank(id) ==
    CASE id = "a--1" -> 1
      [] id = "a--2" -> 2
      [] id = "b--1" -> 3
      [] OTHER -> 4

\* the rank of a kind name under localeCompare
KindRank(kind) == CASE kind = "a" -> 1 [] kind = "b" -> 2 [] OTHER -> 3

\* the comparator storySort(spec) builds from a declarative specification:
\* stories of one kind compare equal, kinds compare alphabetically under
\* method "alphabetical" and equal otherwise
storySort(spec, s1, s2) ==
    IF s1.kind = s2.kind THEN 0
    ELSE IF ~spec.leaf /\ "method" \in DOMAIN spec.m /\ spec.m["method"] = Leaf("alphabetical")
         THEN KindRank(s1.kind) - KindRank(s2.kind)
         ELSE 0

\* a comparator given as a function: the model knows (a, b) => b[0].localeCompare(a[0])
\* under the name "fn:idDescending"; any other function compares everything equal
ApplySortFn(fn, s1, s2) ==
    IF fn = Leaf("fn:idDescending") THEN IdRank(s2.id) - IdRank(s1.id) ELSE 0

IsFunctionValue(value) == value.leaf /\ value.v \in {"fn:idDescending", "fn:keepOrder"}

\* the value of parameters.options.storySort, Leaf("undefined") when there is none
StorySortOf(parameters) ==
    IF "options" \in DOMAIN parameters /\ ~parameters["options"].leaf
       /\ "storySort" \in DOMAIN parameters["options"].m
    THEN parameters["options"].m["storySort"]
    ELSE Leaf("undefined")

\* the index extract() finds: the first key whose parameters.options is truthy, 0 when none
FindOptionsIndex(stories) ==
    LET hits == {i \in 1..Len(stories) : TruthyAt(stories[i].parameters, "options")}
    IN IF hits = {} THEN 0 ELSE CHOOSE i \in hits : \A j \in hits : i <= j

\* the comparator extract() sorts with (lines 370-386)
ExtractCompare(stories, kinds, s1, s2) ==
    LET index == FindOptionsIndex(stories)
        storySortParameter ==
            IF index = 0 THEN Leaf("undefined") ELSE StorySortOf(stories[index].parameters)
    IN IF index # 0 /\ Truthy(storySortParameter)
       THEN IF IsFunctionValue(storySortParameter)
            THEN ApplySortFn(storySortParameter, s1, s2)
            ELSE storySort(storySortParameter, s1, s2)
       ELSE kinds[s1.kind].order - kinds[s2.kind].order

\* InsertStable placing x before the entries it compares equal to: an unstable sort
RECURSIVE InsertStable_Unstable(_, _, _, _)
InsertStable_Unstable(sorted, x, stories, kinds) ==
    IF sorted = <<>> THEN <<x>>
    ELSE IF ExtractCompare(stories, kinds, Head(sorted), x) >= 0
         THEN <<x>> \o sorted
         ELSE <<Head(sorted)>> \o InsertStable_Unstable(Tail(sorted), x, stories, kinds)

\* x placed into the sorted list: behind every entry that does not compare greater
RECURSIVE InsertStable(_, _, _, _)
InsertStable(sorted, x, stories, kinds) ==
    IF sorted = <<>> THEN <<x>>
    ELSE IF ExtractCompare(stories, kinds, Head(sorted), x) > 0
         THEN <<x>> \o sorted
         ELSE <<Head(sorted)>> \o InsertStable(Tail(sorted), x, stories, kinds)

\* stable.inplace(entries, comparator)
RECURSIVE StableSort(_, _, _)
StableSort(todo, stories, kinds) ==
    IF todo = <<>> THEN <<>>
    ELSE InsertStable(StableSort(SubSeq(todo, 1, Len(todo) - 1), stories, kinds),
                      todo[Len(todo)], stories, kinds)

RECURSIVE MapToExtracted(_)
MapToExtracted(stories) ==
    IF stories = <<>> THEN <<>>
    ELSE <<toExtracted(Head(stories))>> \o MapToExtracted(Tail(stories))

\* extract(options): the entries of the result, in key order
extract(stories, kinds, includeDocsOnly) ==
    MapToExtracted(SelectSeq(StableSort(stories, stories, kinds),
                             LAMBDA s : includeStory(s, includeDocsOnly)))

\* getStoriesForManager
getStoriesForManager(stories, kinds) == extract(stories, kinds, TRUE)

RECURSIVE Distinct(_)
\* Array.from(new Set(list)): first occurrences, in order
Distinct(list) ==
    IF list = <<>> THEN <<>>
    ELSE <<Head(list)>> \o Distinct(SelectSeq(Tail(list), LAMBDA x : x # Head(list)))

RECURSIVE MapKind(_)
MapKind(list) == IF list = <<>> THEN <<>> ELSE <<Head(list).kind>> \o MapKind(Tail(list))

RECURSIVE MapName(_)
MapName(list) == IF list = <<>> THEN <<>> ELSE <<Head(list).name>> \o MapName(Tail(list))

\* getStoryKinds
getStoryKinds(stories, globalArgs) == Distinct(MapKind(raw(stories, globalArgs, FALSE)))

\* getStoriesForKind
getStoriesForKind(stories, globalArgs, kind) ==
    SelectSeq(raw(stories, globalArgs, FALSE), LAMBDA s : s.kind = kind)

\* undefined, as the result of a lookup
Undefined == [undefined |-> TRUE]

\* getRawStory
getRawStory(stories, globalArgs, kind, name) ==
    LET found == SelectSeq(getStoriesForKind(stories, globalArgs, kind), LAMBDA s : s.name = name)
    IN IF found = <<>> THEN Undefined ELSE Head(found)

RECURSIVE SortByKindOrder(_, _)
\* Array.prototype.sort by _kinds[kind].order, a stable sort
SortByKindOrder(list, kinds) ==
    IF list = <<>> THEN <<>>
    ELSE LET rest == SortByKindOrder(SubSeq(list, 1, Len(list) - 1), kinds)
             x == list[Len(list)]
         IN SelectSeq(rest, LAMBDA e : kinds[e.kind].order - kinds[x.kind].order <= 0)
            \o <<x>>
            \o SelectSeq(rest, LAMBDA e : kinds[e.kind].order - kinds[x.kind].order > 0)

RECURSIVE MapStorybookKind(_, _)
MapStorybookKind(kindList, list) ==
    IF kindList = <<>> THEN <<>>
    ELSE <<[kind |-> Head(kindList),
            stories |-> MapName(SelectSeq(list, LAMBDA s : s.kind = Head(kindList)))]>>
         \o MapStorybookKind(Tail(kindList), list)

\* getStorybook: the kinds with the names of their stories
getStorybook(stories, kinds, globalArgs) ==
    LET list == SelectSeq(raw(stories, globalArgs, FALSE), LAMBDA s : includeStory(s, FALSE))
    IN SortByKindOrder(MapStorybookKind(Distinct(MapKind(list)), list), kinds)

-----------------------------------------------------------------------------
(* Calls, errors and emissions.                                            *)

\* a call of the API; rep says that the call before it was the same call
Call(op, id, kind, allowUnsafe) ==
    [op |-> op, id |-> id, kind |-> kind, allowUnsafe |-> allowUnsafe,
     rep |-> /\ lastCall.op = op /\ lastCall.id = id
             /\ lastCall.kind = kind /\ lastCall.allowUnsafe = allowUnsafe]

\* channel.emit(type, ...args) as the channel records it: by is the method that
\* emitted, cfg the value of _configuring at that moment
Event(type, args, by, cfg) == [type |-> type, args |-> args, by |-> by, cfg |-> cfg]

\* room for n more emissions (no bound applies to a store without a channel)
CanEmit(n) == ~_channel \/ Len(emitted) + n <= MaxEmitted

\* this._selection = {} of the constructor
NoSelection == [storyId |-> "undefined", viewMode |-> "undefined"]

\* Immutable with the allowUnsafe override forgotten
Immutable_NoOverride(allowUnsafe) == ~_configuring

\* the guard of addStory, remove and removeStoryKind
Immutable(allowUnsafe) == ~_configuring /\ ~allowUnsafe

-----------------------------------------------------------------------------
(* Metadata.                                                               *)

\* ensureKind without its test: every reference creates the entry anew
ensureKind_NoTest(kinds, kind) ==
    [k \in (DOMAIN kinds) \cup {kind} |->
        IF k = kind
        THEN [order |-> Cardinality(DOMAIN kinds), parameters |-> EmptyMap,
              decorators |-> <<>>]
        ELSE kinds[k]]

\* ensureKind: the kinds after the call
ensureKind(kinds, kind) ==
    IF kind \in DOMAIN kinds THEN kinds
    ELSE [k \in (DOMAIN kinds) \cup {kind} |->
            IF k = kind
            THEN [order |-> Cardinality(DOMAIN kinds), parameters |-> EmptyMap,
                  decorators |-> <<>>]
            ELSE kinds[k]]

\* what a parameter enhancer returns for a story.  "setOptions" returns
\* { options: { enhanced: true } }; "seenOptions" returns { seen: parameters.options }
\* when the accumulated parameters have options, {} otherwise
ApplyEnhancer(enhancer, identification, parameters) ==
    CASE enhancer = "setOptions" ->
            [k \in {"options"} |-> Obj([j \in {"enhanced"} |-> Leaf("true")])]
      [] enhancer = "seenOptions" ->
            IF "options" \in DOMAIN parameters
            THEN [k \in {"seen"} |-> parameters["options"]]
            ELSE EmptyMap
      [] OTHER -> EmptyMap

RECURSIVE ReduceEnhancers(_, _, _)
\* this._parameterEnhancers.reduce(..., parametersBeforeEnhancement) (lines 230-236)
ReduceEnhancers(enhancers, identification, accumlatedParameters) ==
    IF enhancers = <<>> THEN accumlatedParameters
    ELSE ReduceEnhancers(Tail(enhancers), identification,
            Spread(accumlatedParameters,
                   ApplyEnhancer(Head(enhancers), identification, accumlatedParameters)))

\* ResolveParameters with the kind's parameters merged under the global ones
ResolveParameters_KindFirst(globalParameters, kindParameters, storyParameters, enhancers, identification) ==
    ReduceEnhancers(enhancers, identification,
                    combineParameters(kindParameters, globalParameters, storyParameters))

\* the parameters addStory resolves (lines 224-236)
ResolveParameters(globalParameters, kindParameters, storyParameters, enhancers, identification) ==
    ReduceEnhancers(enhancers, identification,
                    combineParameters(globalParameters, kindParameters, storyParameters))

\* initialArgs: parameters.args || {}
InitialArgs(parameters) ==
    IF TruthyAt(parameters, "args") /\ ~parameters["args"].leaf
    THEN parameters["args"].m ELSE EmptyMap

\* defaultArgs: the truthy defaultValue of each entry of parameters.argTypes
DefaultArgs(parameters) ==
    IF TruthyAt(parameters, "argTypes") /\ ~parameters["argTypes"].leaf
    THEN LET argTypes == parameters["argTypes"].m
             taken == {arg \in DOMAIN argTypes :
                          /\ ~argTypes[arg].leaf
                          /\ TruthyAt(argTypes[arg].m, "defaultValue")}
         IN [arg \in taken |-> argTypes[arg].m["defaultValue"]]
    ELSE EmptyMap

-----------------------------------------------------------------------------
(* Hooks.                                                                  *)

\* hooks.clean() on the h-th HooksContext
Clean(calls, h) == [calls EXCEPT ![h] = @ + 1]

RECURSIVE CleanAll(_, _)
CleanAll(calls, list) ==
    IF list = <<>> THEN calls ELSE CleanAll(Clean(calls, Head(list).hooks), Tail(list))

\* cleanHooksForKind: cleanHooks(story.id) for each story of getStoriesForKind(kind);
\* every id raw() returns is a key of _stories, and carries that record's hooks
cleanHooksForKind(calls, stories, globalArgs, kind) ==
    CleanAll(calls, getStoriesForKind(stories, globalArgs, kind))

-----------------------------------------------------------------------------
(* Closures.  The storyFn of a record closes over the map that was          *)
(* this._stories when addStory ran (line 196) and reads _stories[id].args   *)
(* from it at every call (line 258).  removeStoryKind replaces              *)
(* this._stories by a new map holding the same record objects (lines        *)
(* 312-316); from then on nothing writes to the old map, so what it holds   *)
(* under a key is fixed, while the record object under that key still       *)
(* changes when setStoryArgs assigns its args through the new map.          *)
(* A storyFn is reached through the registry (fromId, raw, getStorybook):   *)
(* once its record has left the registry it is not called again, and its    *)
(* closure is dropped.                                                      *)

\* no storyFn has been called
NoContext == [id |-> "", hooks |-> 0, args |-> EmptyMap, globalArgs |-> EmptyMap]

\* const { _stories } = this: the closure of the record of `id` holds the store's map
CaptureLive(id) == [id |-> id, live |-> TRUE, hooks |-> 0, args |-> EmptyMap]

\* what a map that is being replaced holds under the key of closure c: the record
\* object, named by its hooks, and its args; hooks 0 when the key is absent
Freeze(c, stories) ==
    IF ~c.live THEN c
    ELSE IF c.id \in Ids(stories)
         THEN [id |-> c.id, live |-> FALSE, hooks |-> stories[IndexOf(stories, c.id)].hooks,
               args |-> stories[IndexOf(stories, c.id)].args]
         ELSE [id |-> c.id, live |-> FALSE, hooks |-> 0, args |-> EmptyMap]

\* the closures after this._stories was replaced
FreezeAll(closed, stories) == [h \in DOMAIN closed |-> Freeze(closed[h], stories)]

\* AssignArgs for a replaced map that holds copies of the records, not the records
AssignArgs_Copies(closed, hooks, args) == closed

\* the closures after the record object with hooks `hooks` was assigned `args`
AssignArgs(closed, hooks, args) ==
    [h \in DOMAIN closed |->
        IF ~closed[h].live /\ closed[h].hooks = hooks
        THEN [closed[h] EXCEPT !.args = args]
        ELSE closed[h]]

\* the closure of a record that is no longer reachable
Dropped == [id |-> "", live |-> FALSE, hooks |-> 0, args |-> EmptyMap]

\* the closures of the records that `stories` still holds
Reachable(closed, stories) ==
    [h \in DOMAIN closed |->
        IF \E i \in 1..Len(stories) : stories[i].hooks = h THEN closed[h] ELSE Dropped]

\* _stories[id] as the closure c reads it: Undefined when the key is absent
CapturedRecord(c, stories) ==
    IF c.live
    THEN IF c.id \in Ids(stories)
         THEN [hooks |-> stories[IndexOf(stories, c.id)].hooks,
               args |-> stories[IndexOf(stories, c.id)].args]
         ELSE Undefined
    ELSE IF c.hooks = 0 THEN Undefined ELSE [hooks |-> c.hooks, args |-> c.args]

-----------------------------------------------------------------------------
(* The state after construction (lines 95-110).                            *)

InitStore ==
    /\ _configuring = TRUE
    /\ _globalArgs = EmptyMap
    /\ _globalMetadata = [parameters |-> EmptyMap, decorators |-> <<>>]
    /\ _kinds = EmptyMap
    /\ _stories = <<>>
    /\ _parameterEnhancers = <<>>
    /\ _revision = 0
    /\ _selection = NoSelection
    /\ _error = "undefined"
    /\ emitted = <<>>
    /\ cleanCalls = <<>>
    /\ captured = <<>>
    /\ getDecoratedCache = <<>>
    /\ applyCalls = <<>>
    /\ rendered = NoContext
    /\ metaCalls = <<>>
    /\ registrationOrder = <<>>
    /\ lastCall = [op |-> "constructor", id |-> "", kind |-> "", allowUnsafe |-> FALSE,
                   rep |-> FALSE]
    /\ thrown = "none"

-----------------------------------------------------------------------------
(* The operations.                                                         *)

startConfiguring ==
    /\ _configuring' = TRUE
    /\ lastCall' = Call("startConfiguring", "", "", FALSE)
    /\ thrown' = "none"
    /\ UNCHANGED <<_channel, _globalArgs, _globalMetadata, _kinds, _stories,
                   _parameterEnhancers, _revision, _selection, _error, emitted,
                   cleanCalls>>
    /\ UNCHANGED closures

\* FinishEvents without the emission of RENDER_CURRENT_STORY
FinishEvents_NoRender(stories, kinds) ==
    <<Event("SET_STORIES", <<getStoriesForManager(stories, kinds)>>,
            "finishConfiguring", FALSE)>>

\* the emissions of finishConfiguring when the store has a channel: pushToManager
\* (lines 424-431), then RENDER_CURRENT_STORY (line 136)
FinishEvents(stories, kinds) ==
    <<Event("SET_STORIES", <<getStoriesForManager(stories, kinds)>>,
            "finishConfiguring", FALSE),
      Event("RENDER_CURRENT_STORY", <<>>, "finishConfiguring", FALSE)>>

finishConfiguring ==
    /\ CanEmit(2)
    /\ _configuring' = FALSE
    /\ emitted' = IF _channel THEN emitted \o FinishEvents(_stories, _kinds) ELSE emitted
    /\ lastCall' = Call("finishConfiguring", "", "", FALSE)
    /\ thrown' = "none"
    /\ UNCHANGED <<_channel, _globalArgs, _globalMetadata, _kinds, _stories,
                   _parameterEnhancers, _revision, _selection, _error,
                   cleanCalls>>
    /\ UNCHANGED closures

\* addGlobalMetadata pushing onto a decorators array that the records share
addGlobalMetadata_Shared(parameters, decorators) ==
    /\ _globalMetadata' =
          [parameters |-> Combine2(_globalMetadata.parameters, parameters),
           decorators |-> _globalMetadata.decorators \o decorators]
    /\ _stories' = [i \in 1..Len(_stories) |->
                       [_stories[i] EXCEPT !.decorators = @ \o decorators]]
    /\ lastCall' = Call("addGlobalMetadata", "", "", FALSE)
    /\ thrown' = "none"
    /\ UNCHANGED <<_configuring, _channel, _globalArgs, _kinds,
                   _parameterEnhancers, _revision, _selection, _error, emitted,
                   cleanCalls>>
    /\ UNCHANGED closures

addGlobalMetadata(parameters, decorators) ==
    /\ _globalMetadata' =
          [parameters |-> Combine2(_globalMetadata.parameters, parameters),
           decorators |-> _globalMetadata.decorators \o decorators]
    /\ lastCall' = Call("addGlobalMetadata", "", "", FALSE)
    /\ thrown' = "none"
    /\ UNCHANGED <<_configuring, _channel, _globalArgs, _kinds, _stories,
                   _parameterEnhancers, _revision, _selection, _error, emitted,
                   cleanCalls>>
    /\ UNCHANGED closures

clearGlobalDecorators ==
    /\ _globalMetadata' = [_globalMetadata EXCEPT !.decorators = <<>>]
    /\ lastCall' = Call("clearGlobalDecorators", "", "", FALSE)
    /\ thrown' = "none"
    /\ UNCHANGED <<_configuring, _channel, _globalArgs, _kinds, _stories,
                   _parameterEnhancers, _revision, _selection, _error, emitted,
                   cleanCalls>>
    /\ UNCHANGED closures

\* ensureKind called on its own
ensureKindCall(kind) ==
    /\ _kinds' = ensureKind(_kinds, kind)
    /\ lastCall' = Call("ensureKind", "", kind, FALSE)
    /\ thrown' = "none"
    /\ UNCHANGED <<_configuring, _channel, _globalArgs, _globalMetadata, _stories,
                   _parameterEnhancers, _revision, _selection, _error, emitted,
                   cleanCalls>>
    /\ UNCHANGED closures

addKindMetadata(kind, parameters, decorators) ==
    /\ LET ensured == ensureKind(_kinds, kind)
       IN _kinds' = [ensured EXCEPT
                        ![kind].parameters = Combine2(ensured[kind].parameters, parameters),
                        ![kind].decorators = ensured[kind].decorators \o decorators]
    /\ lastCall' = Call("addKindMetadata", "", kind, FALSE)
    /\ thrown' = "none"
    /\ UNCHANGED <<_configuring, _channel, _globalArgs, _globalMetadata, _stories,
                   _parameterEnhancers, _revision, _selection, _error, emitted,
                   cleanCalls>>
    /\ UNCHANGED closures

\* addParameterEnhancer without its test of the registry
addParameterEnhancer_Unguarded(parameterEnhancer) ==
    /\ lastCall' = Call("addParameterEnhancer", "", "", FALSE)
    /\ thrown' = "none"
    /\ _parameterEnhancers' = Append(_parameterEnhancers, parameterEnhancer)
    /\ UNCHANGED <<_configuring, _channel, _globalArgs, _globalMetadata, _kinds, _stories,
                   _revision, _selection, _error, emitted, cleanCalls>>
    /\ UNCHANGED closures

addParameterEnhancer(parameterEnhancer) ==
    /\ lastCall' = Call("addParameterEnhancer", "", "", FALSE)
    /\ IF Len(_stories) > 0
       THEN /\ thrown' = "Cannot add a parameter enhancer to the store after a story has been added."
            /\ UNCHANGED _parameterEnhancers
       ELSE /\ thrown' = "none"
            /\ _parameterEnhancers' = Append(_parameterEnhancers, parameterEnhancer)
    /\ UNCHANGED <<_configuring, _channel, _globalArgs, _globalMetadata, _kinds, _stories,
                   _revision, _selection, _error, emitted, cleanCalls>>
    /\ UNCHANGED closures

\* the record addStory stores (lines 207-284); hooks is the number of the new HooksContext
StoryRecord(story, kinds, hooks) ==
    LET identification == [id |-> story.id, kind |-> story.kind, name |-> story.name]
        kindMetadata == kinds[story.kind]
        parameters == ResolveParameters(_globalMetadata.parameters, kindMetadata.parameters,
                                        story.parameters, _parameterEnhancers, identification)
    IN [id |-> story.id, kind |-> story.kind, name |-> story.name,
        hooks |-> hooks,
        decorators |-> story.decorators \o kindMetadata.decorators
                       \o _globalMetadata.decorators,
        parameters |-> parameters,
        args |-> Spread(DefaultArgs(parameters), InitialArgs(parameters))]

addStory(story, allowUnsafe) ==
    /\ lastCall' = Call("addStory", story.id, story.kind, allowUnsafe)
    /\ IF Immutable(allowUnsafe)
       THEN /\ thrown' = "Cannot add a story when not configuring"
            /\ UNCHANGED <<_kinds, _stories, cleanCalls, captured, getDecoratedCache,
                           applyCalls>>
       ELSE /\ Len(cleanCalls) < MaxHooks
            /\ thrown' = "none"
            /\ _kinds' = ensureKind(_kinds, story.kind)
            /\ cleanCalls' = Append(cleanCalls, 0)
            /\ getDecoratedCache' = Append(getDecoratedCache, FALSE)
            /\ applyCalls' = Append(applyCalls, 0)
            /\ _stories' = SetKey(_stories, StoryRecord(story, _kinds', Len(cleanCalls')))
            /\ captured' = Reachable(Append(captured, CaptureLive(story.id)), _stories')
    /\ UNCHANGED rendered
    /\ UNCHANGED <<_configuring, _channel, _globalArgs, _globalMetadata,
                   _parameterEnhancers, _revision, _selection, _error, emitted>>

\* removeThrows rejecting an id that is not registered, as setStoryArgs does
removeThrows_UnknownId(id, allowUnsafe) == Immutable(allowUnsafe) \/ id \notin Ids(_stories)

\* whether remove(id) throws: only on the immutable store, never for an absent id
removeThrows(id, allowUnsafe) == Immutable(allowUnsafe)

remove(id, allowUnsafe) ==
    /\ lastCall' = Call("remove", id, "", allowUnsafe)
    /\ IF removeThrows(id, allowUnsafe)
       THEN /\ thrown' = "Cannot remove a story when not configuring"
            /\ UNCHANGED <<_stories, cleanCalls, captured>>
       ELSE /\ thrown' = "none"
            /\ _stories' = DeleteKey(_stories, id)
            /\ captured' = Reachable(captured, _stories')
            /\ cleanCalls' = IF id \in Ids(_stories)
                             THEN Clean(cleanCalls, _stories[IndexOf(_stories, id)].hooks)
                             ELSE cleanCalls
    /\ UNCHANGED <<_configuring, _channel, _globalArgs, _globalMetadata, _kinds,
                   _parameterEnhancers, _revision, _selection, _error, emitted>>
    /\ UNCHANGED <<getDecoratedCache, applyCalls, rendered>>

\* removeStoryKind deleting the entry of the kind instead of clearing it
removeStoryKind_DeletesKind(kind, allowUnsafe) ==
    /\ lastCall' = Call("removeStoryKind", "", kind, allowUnsafe)
    /\ IF Immutable(allowUnsafe)
       THEN /\ thrown' = "Cannot remove a kind when not configuring"
            /\ UNCHANGED <<_kinds, _stories, cleanCalls, captured>>
       ELSE /\ thrown' = "none"
            /\ IF kind \notin DOMAIN _kinds
               THEN UNCHANGED <<_kinds, _stories, cleanCalls, captured>>
               ELSE /\ _kinds' = [k \in (DOMAIN _kinds) \ {kind} |-> _kinds[k]]
                    /\ cleanCalls' = cleanHooksForKind(cleanCalls, _stories, _globalArgs, kind)
                    /\ _stories' = SeqFilterKind(_stories, kind)
                    /\ captured' = Reachable(FreezeAll(captured, _stories), _stories')
    /\ UNCHANGED <<getDecoratedCache, applyCalls, rendered>>
    /\ UNCHANGED <<_configuring, _channel, _globalArgs, _globalMetadata,
                   _parameterEnhancers, _revision, _selection, _error, emitted>>

removeStoryKind(kind, allowUnsafe) ==
    /\ lastCall' = Call("removeStoryKind", "", kind, allowUnsafe)
    /\ IF Immutable(allowUnsafe)
       THEN /\ thrown' = "Cannot remove a kind when not configuring"
            /\ UNCHANGED <<_kinds, _stories, cleanCalls, captured>>
       ELSE /\ thrown' = "none"
            /\ IF kind \notin DOMAIN _kinds
               THEN UNCHANGED <<_kinds, _stories, cleanCalls, captured>>
               ELSE /\ _kinds' = [_kinds EXCEPT ![kind].parameters = EmptyMap,
                                                ![kind].decorators = <<>>]
                    /\ cleanCalls' = cleanHooksForKind(cleanCalls, _stories, _globalArgs, kind)
                    /\ _stories' = SeqFilterKind(_stories, kind)
                    /\ captured' = Reachable(FreezeAll(captured, _stories), _stories')
    /\ UNCHANGED <<getDecoratedCache, applyCalls, rendered>>
    /\ UNCHANGED <<_configuring, _channel, _globalArgs, _globalMetadata,
                   _parameterEnhancers, _revision, _selection, _error, emitted>>

\* without a channel, this._channel.emit raises a TypeError after the assignment
setGlobalArgs(newGlobalArgs) ==
    /\ CanEmit(1)
    /\ lastCall' = Call("setGlobalArgs", "", "", FALSE)
    /\ _globalArgs' = Spread(_globalArgs, newGlobalArgs)
    /\ IF _channel
       THEN /\ emitted' = Append(emitted, Event("GLOBAL_ARGS_CHANGED", <<_globalArgs'>>,
                                                "setGlobalArgs", _configuring))
            /\ thrown' = "none"
       ELSE /\ thrown' = "TypeError"
            /\ UNCHANGED emitted
    /\ UNCHANGED <<_configuring, _channel, _globalMetadata, _kinds, _stories,
                   _parameterEnhancers, _revision, _selection, _error, cleanCalls>>
    /\ UNCHANGED closures

setStoryArgs(id, newArgs) ==
    /\ CanEmit(1)
    /\ lastCall' = Call("setStoryArgs", id, "", FALSE)
    /\ IF id \notin Ids(_stories)
       THEN /\ thrown' = "No story for id"
            /\ UNCHANGED <<_stories, emitted, captured>>
       ELSE LET i == IndexOf(_stories, id)
            IN /\ _stories' = [_stories EXCEPT ![i].args = Spread(@, newArgs)]
               /\ captured' = AssignArgs(captured, _stories[i].hooks, _stories'[i].args)
               /\ IF _channel
                  THEN /\ emitted' = Append(emitted,
                                        Event("STORY_ARGS_CHANGED", <<id, _stories'[i].args>>,
                                              "setStoryArgs", _configuring))
                       /\ thrown' = "none"
                  ELSE /\ thrown' = "TypeError"
                       /\ UNCHANGED emitted
    /\ UNCHANGED <<_configuring, _channel, _globalArgs, _globalMetadata, _kinds,
                   _parameterEnhancers, _revision, _selection, _error, cleanCalls>>
    /\ UNCHANGED <<getDecoratedCache, applyCalls, rendered>>

clearError ==
    /\ _error' = "null"
    /\ lastCall' = Call("clearError", "", "", FALSE)
    /\ thrown' = "none"
    /\ UNCHANGED <<_configuring, _channel, _globalArgs, _globalMetadata, _kinds, _stories,
                   _parameterEnhancers, _revision, _selection, emitted, cleanCalls>>
    /\ UNCHANGED closures

setError(err) ==
    /\ CanEmit(1)
    /\ _error' = err
    /\ emitted' = IF _channel
                  THEN Append(emitted, Event("RENDER_CURRENT_STORY", <<>>, "setError",
                                             _configuring))
                  ELSE emitted
    /\ lastCall' = Call("setError", "", "", FALSE)
    /\ thrown' = "none"
    /\ UNCHANGED <<_configuring, _channel, _globalArgs, _globalMetadata, _kinds, _stories,
                   _parameterEnhancers, _revision, _selection, cleanCalls>>
    /\ UNCHANGED closures

\* SelectionEvents without the test of _configuring
SelectionEvents_AlwaysRender(selection, configuring) ==
    <<Event("CURRENT_STORY_WAS_SET", <<selection>>, "setSelection", configuring),
      Event("RENDER_CURRENT_STORY", <<>>, "setSelection", configuring)>>

\* the emissions of setSelection when the store has a channel (lines 409-415)
SelectionEvents(selection, configuring) ==
    <<Event("CURRENT_STORY_WAS_SET", <<selection>>, "setSelection", configuring)>>
    \o (IF ~configuring
        THEN <<Event("RENDER_CURRENT_STORY", <<>>, "setSelection", configuring)>>
        ELSE <<>>)

setSelection(selection) ==
    /\ CanEmit(Len(SelectionEvents(selection, _configuring)))
    /\ _selection' = selection
    /\ emitted' = IF _channel
                  THEN emitted \o SelectionEvents(selection, _configuring)
                  ELSE emitted
    /\ lastCall' = Call("setSelection", selection.storyId, "", FALSE)
    /\ thrown' = "none"
    /\ UNCHANGED <<_configuring, _channel, _globalArgs, _globalMetadata, _kinds, _stories,
                   _parameterEnhancers, _revision, _error, cleanCalls>>
    /\ UNCHANGED closures

incrementRevision ==
    /\ _revision < MaxRevision
    /\ _revision' = _revision + 1
    /\ lastCall' = Call("incrementRevision", "", "", FALSE)
    /\ thrown' = "none"
    /\ UNCHANGED <<_configuring, _channel, _globalArgs, _globalMetadata, _kinds, _stories,
                   _parameterEnhancers, _selection, _error, emitted, cleanCalls>>
    /\ UNCHANGED closures

\* memoize(1)(() => applyDecorators(finalStoryFn, decorators)), called: the
\* applyDecorators calls made so far, after a call of the h-th record's getDecorated
Memoize(cache, calls, h) == IF cache[h] THEN calls ELSE [calls EXCEPT ![h] = @ + 1]

\* fromId(id).getDecorated()
getDecorated(id) ==
    /\ id \in Ids(_stories)
    /\ LET h == _stories[IndexOf(_stories, id)].hooks
       IN /\ applyCalls' = Memoize(getDecoratedCache, applyCalls, h)
          /\ getDecoratedCache' = [getDecoratedCache EXCEPT ![h] = TRUE]
    /\ lastCall' = Call("getDecorated", id, "", FALSE)
    /\ thrown' = "none"
    /\ UNCHANGED <<_configuring, _channel, _globalArgs, _globalMetadata, _kinds, _stories,
                   _parameterEnhancers, _revision, _selection, _error, emitted, cleanCalls,
                   captured, rendered>>

\* storyFn applying the decorators itself at every call
storyFn_Undecorated(id) ==
    /\ id \in Ids(_stories)
    /\ LET h == _stories[IndexOf(_stories, id)].hooks
           record == CapturedRecord(captured[h], _stories)
       IN /\ applyCalls' = [applyCalls EXCEPT ![h] = @ + 1]
          /\ UNCHANGED getDecoratedCache
          /\ IF record = Undefined
             THEN /\ thrown' = "TypeError"
                  /\ UNCHANGED rendered
             ELSE /\ thrown' = "none"
                  /\ rendered' = [id |-> id, hooks |-> h, args |-> record.args,
                                  globalArgs |-> _globalArgs]
    /\ lastCall' = Call("storyFn", id, "", FALSE)
    /\ UNCHANGED <<_configuring, _channel, _globalArgs, _globalMetadata, _kinds, _stories,
                   _parameterEnhancers, _revision, _selection, _error, emitted, cleanCalls,
                   captured>>

\* fromId(id).storyFn(runtimeContext): getDecorated() is evaluated first, then the
\* context, in which reading .args of an absent _stories[id] raises a TypeError
storyFn(id) ==
    /\ id \in Ids(_stories)
    /\ LET h == _stories[IndexOf(_stories, id)].hooks
           record == CapturedRecord(captured[h], _stories)
       IN /\ applyCalls' = Memoize(getDecoratedCache, applyCalls, h)
          /\ getDecoratedCache' = [getDecoratedCache EXCEPT ![h] = TRUE]
          /\ IF record = Undefined
             THEN /\ thrown' = "TypeError"
                  /\ UNCHANGED rendered
             ELSE /\ thrown' = "none"
                  /\ rendered' = [id |-> id, hooks |-> h, args |-> record.args,
                                  globalArgs |-> _globalArgs]
    /\ lastCall' = Call("storyFn", id, "", FALSE)
    /\ UNCHANGED <<_configuring, _channel, _globalArgs, _globalMetadata, _kinds, _stories,
                   _parameterEnhancers, _revision, _selection, _error, emitted, cleanCalls,
                   captured>>

-----------------------------------------------------------------------------
(* The registry: registration and removal on a store without a channel     *)
(* (the channel is null in StoryShots, line 113).                          *)

Map1(key, value) == [k \in {key} |-> value]

PlainStory(id, kind, name, parameters) ==
    [id |-> id, kind |-> kind, name |-> name, parameters |-> parameters,
     decorators |-> <<>>]

\* the stories the loader registers: two of kind "a", a documentation-only one of kind "b"
RegistryStories ==
    {PlainStory("a--1", "a", "1", EmptyMap),
     PlainStory("a--2", "a", "2", Map1("docsOnly", Leaf("false"))),
     PlainStory("b--1", "b", "1", Map1("docsOnly", Leaf("true")))}

RegistryIds == {"a--1", "a--2", "b--1"}

RegistryKinds == {"a", "b"}

\* the observers: what they record of a step
Unobserved == UNCHANGED <<metaCalls, registrationOrder>>

\* a successful addStory of an id never registered before is its first registration
ObserveRegistration(id) ==
    /\ registrationOrder' =
          IF thrown' = "none" /\ id \notin {registrationOrder[i] : i \in 1..Len(registrationOrder)}
          THEN Append(registrationOrder, id)
          ELSE registrationOrder
    /\ UNCHANGED metaCalls

\* a metadata addition: kind is "" for addGlobalMetadata
ObserveMetadata(kind, parameters) ==
    /\ Len(metaCalls) < MaxMetaCalls
    /\ metaCalls' = Append(metaCalls, [kind |-> kind, parameters |-> parameters])
    /\ UNCHANGED registrationOrder

Init == InitStore /\ _channel = FALSE

Next ==
    \/ startConfiguring /\ Unobserved
    \/ finishConfiguring /\ Unobserved
    \/ \E kind \in RegistryKinds : ensureKindCall(kind) /\ Unobserved
    \/ \E story \in RegistryStories, allowUnsafe \in BOOLEAN :
          addStory(story, allowUnsafe) /\ ObserveRegistration(story.id)
    \/ \E id \in RegistryIds, allowUnsafe \in BOOLEAN : remove(id, allowUnsafe) /\ Unobserved
    \/ \E kind \in RegistryKinds, allowUnsafe \in BOOLEAN :
          removeStoryKind(kind, allowUnsafe) /\ Unobserved

Spec == Init /\ [][Next]_vars

-----------------------------------------------------------------------------
(* Properties of the registry.                                             *)

\* the keys of an extract() result, the ids of a raw() result
KeysOf(list) == {list[i].id : i \in 1..Len(list)}

\* the story was registered with parameters.docsOnly: true
DocsOnlyIsTrue(story) ==
    "docsOnly" \in DOMAIN story.parameters /\ story.parameters["docsOnly"] = Leaf("true")

\* the step is a call of addStory on a store that has finished configuring
AddStoryAfterFinish == lastCall'.op = "addStory" /\ ~_configuring

\* C1, as claimed: after finishConfiguring(), addStory without allowUnsafe fails
\* with the immutable-store error and leaves the registered stories unchanged;
\* with allowUnsafe it succeeds and the story's id is a key of the extract()
\* result that follows.
C1_AsClaimed ==
    [][AddStoryAfterFinish =>
         IF lastCall'.allowUnsafe
         THEN /\ thrown' = "none"
              /\ lastCall'.id \in KeysOf(extract(_stories', _kinds', FALSE))
         ELSE /\ thrown' = "Cannot add a story when not configuring"
              /\ _stories' = _stories]_vars

\* C1, amended: after finishConfiguring(), addStory without allowUnsafe fails
\* with the immutable-store error and leaves the registered stories unchanged;
\* with allowUnsafe it succeeds and registers the story; and in every state every
\* registered story's id is a key of extract({ includeDocsOnly: true }), and a key
\* of extract() unless its resolved parameters.docsOnly is truthy.
C1_AddStoryAfterFinish ==
    /\ [][AddStoryAfterFinish =>
            IF lastCall'.allowUnsafe
            THEN /\ thrown' = "none"
                 /\ lastCall'.id \in Ids(_stories')
            ELSE /\ thrown' = "Cannot add a story when not configuring"
                 /\ _stories' = _stories]_vars
    /\ [](\A i \in 1..Len(_stories) :
            /\ _stories[i].id \in KeysOf(extract(_stories, _kinds, TRUE))
            /\ (~TruthyAt(_stories[i].parameters, "docsOnly")
                  => _stories[i].id \in KeysOf(extract(_stories, _kinds, FALSE))))

\* C1 witness: an addStory with allowUnsafe has just succeeded on a store that is
\* not configuring, and extract() has the story
C1_Witness ==
    /\ lastCall.op = "addStory" /\ lastCall.allowUnsafe /\ ~_configuring
    /\ thrown = "none"
    /\ lastCall.id \in KeysOf(extract(_stories, _kinds, FALSE))

\* the step is a removal that returned
RemovalStep == lastCall'.op \in {"remove", "removeStoryKind"} /\ thrown' = "none"

\* C4, as claimed: on every removal path, remove(id) and removeStoryKind(kind),
\* each record deleted from the registry, documentation-only ones included, has
\* clean() invoked on its hooks exactly once by the removal.
C4_AsClaimed ==
    [][RemovalStep =>
         \A i \in 1..Len(_stories) :
            _stories[i].id \notin Ids(_stories')
               => cleanCalls'[_stories[i].hooks] = cleanCalls[_stories[i].hooks] + 1]_vars

\* the step is a remove(id) the store permits, of an id that is not registered
RemoveOfAbsent ==
    /\ lastCall'.op = "remove"
    /\ lastCall'.id \notin Ids(_stories)
    /\ _configuring \/ lastCall'.allowUnsafe

\* C9: in every reachable state extract() and raw() without includeDocsOnly hold
\* exactly the registered stories whose parameters.docsOnly is not true, with
\* includeDocsOnly: true they hold every registered story, and getStoryKinds,
\* getStoriesForKind, getRawStory and getStorybook leave the documentation-only
\* stories out as well.
C9_DocsOnlyExcluded ==
    LET all == 1..Len(_stories)
        shown == {i \in all : ~DocsOnlyIsTrue(_stories[i])}
        idsOf(S) == {_stories[i].id : i \in S}
        book == getStorybook(_stories, _kinds, _globalArgs)
        listed == getStoryKinds(_stories, _globalArgs)
    IN /\ KeysOf(extract(_stories, _kinds, FALSE)) = idsOf(shown)
       /\ KeysOf(raw(_stories, _globalArgs, FALSE)) = idsOf(shown)
       /\ KeysOf(extract(_stories, _kinds, TRUE)) = idsOf(all)
       /\ KeysOf(raw(_stories, _globalArgs, TRUE)) = idsOf(all)
       /\ {listed[n] : n \in 1..Len(listed)} = {_stories[i].kind : i \in shown}
       /\ \A kind \in DOMAIN _kinds :
             KeysOf(getStoriesForKind(_stories, _globalArgs, kind))
                = idsOf({i \in shown : _stories[i].kind = kind})
       /\ \A i \in all :
             LET found == getRawStory(_stories, _globalArgs, _stories[i].kind, _stories[i].name)
             IN IF i \in shown THEN found = fromId(_stories[i], _globalArgs)
                ELSE found = Undefined
       /\ {book[n].kind : n \in 1..Len(book)} = {_stories[i].kind : i \in shown}
       /\ \A n \in 1..Len(book) :
             {book[n].stories[j] : j \in 1..Len(book[n].stories)}
                = {_stories[i].name : i \in {x \in shown : _stories[x].kind = book[n].kind}}

\* C9 witness: a documentation-only story and another story are registered
C9_Witness ==
    /\ \E i \in 1..Len(_stories) : DocsOnlyIsTrue(_stories[i])
    /\ \E i \in 1..Len(_stories) : ~DocsOnlyIsTrue(_stories[i])

\* the position of x in a list without repetitions, 0 when it is absent
PositionIn(list, x) ==
    IF \E n \in 1..Len(list) : list[n] = x
    THEN CHOOSE n \in 1..Len(list) : list[n] = x
    ELSE 0

\* no registered story declares parameters.options.storySort
NoStorySort ==
    \A i \in 1..Len(_stories) : ~Truthy(StorySortOf(_stories[i].parameters))

\* C10, as claimed: with no storySort parameter on any story, extract() returns
\* two stories of one group in the order of their original (first) registration,
\* also after one of them was removed with remove(id) and added again.
C10_AsClaimed ==
    NoStorySort =>
       LET result == extract(_stories, _kinds, FALSE)
       IN \A m, n \in 1..Len(result) :
             (m < n /\ result[m].kind = result[n].kind)
                => PositionIn(registrationOrder, result[m].id)
                     < PositionIn(registrationOrder, result[n].id)

\* the ids of the stories of a kind, in the order of the list
RECURSIVE IdsOfKind(_, _)
IdsOfKind(list, kind) ==
    IF list = <<>> THEN <<>>
    ELSE (IF Head(list).kind = kind THEN <<Head(list).id>> ELSE <<>>)
         \o IdsOfKind(Tail(list), kind)

\* C10, amended: with no storySort parameter on any story, extract() returns the
\* stories of one group in the order in which their ids were last inserted into
\* the registry: a story added under an id that is not registered, so also one
\* removed with remove(id) and added again, comes behind every other story of its
\* group, whatever the original registration order was.
C10_CurrentInsertionOrder ==
    /\ [](NoStorySort =>
            \A kind \in DOMAIN _kinds :
               IdsOfKind(extract(_stories, _kinds, TRUE), kind) = IdsOfKind(_stories, kind))
    /\ [][(lastCall'.op = "addStory" /\ thrown' = "none" /\ lastCall'.id \notin Ids(_stories)
           /\ NoStorySort')
            => LET ofKind == IdsOfKind(extract(_stories', _kinds', TRUE), lastCall'.kind)
               IN ofKind[Len(ofKind)] = lastCall'.id]_vars

\* C10 witness: a--1 was registered before a--2, then removed and added again,
\* and extract() now returns a--2 before a--1
C10_Witness ==
    /\ NoStorySort
    /\ lastCall.op = "addStory" /\ lastCall.id = "a--1" /\ thrown = "none"
    /\ PositionIn(registrationOrder, "a--1") = 1
    /\ PositionIn(registrationOrder, "a--2") = 2
    /\ IdsOfKind(extract(_stories, _kinds, FALSE), "a") = <<"a--2", "a--1">>
    /\ \E h \in 1..Len(cleanCalls) : cleanCalls[h] = 1

-----------------------------------------------------------------------------
(* Removal next to the state it must leave alone: selection and revision   *)
(* change between the calls.                                               *)

RemovalSelections == {[storyId |-> "a--1", viewMode |-> "story"]}

NextRemoval ==
    \/ startConfiguring /\ Unobserved
    \/ finishConfiguring /\ Unobserved
    \/ incrementRevision /\ Unobserved
    \/ \E selection \in RemovalSelections : setSelection(selection) /\ Unobserved
    \/ \E story \in RegistryStories, allowUnsafe \in BOOLEAN :
          addStory(story, allowUnsafe) /\ ObserveRegistration(story.id)
    \/ \E id \in RegistryIds, allowUnsafe \in BOOLEAN : remove(id, allowUnsafe) /\ Unobserved
    \/ \E kind \in RegistryKinds, allowUnsafe \in BOOLEAN :
          removeStoryKind(kind, allowUnsafe) /\ Unobserved

SpecRemoval == Init /\ [][NextRemoval]_vars

\* C5: remove(id) is idempotent.  A permitted remove(id) leaves id unregistered,
\* and a permitted remove(id) of an id that is not registered (a second call, or
\* an id never registered) raises no error, invokes no clean() and leaves stories,
\* kinds, global metadata, args, selection and revision as they were.
C5_RemoveIdempotent ==
    /\ [][(lastCall'.op = "remove" /\ thrown' = "none")
            => lastCall'.id \notin Ids(_stories')]_vars
    /\ [][RemoveOfAbsent =>
            /\ thrown' = "none"
            /\ UNCHANGED <<_stories, _kinds, _globalMetadata, _globalArgs, _selection,
                           _revision, cleanCalls, _configuring, _parameterEnhancers,
                           _error, emitted>>]_vars

\* C5 witness: remove(id) was called twice in a row and returned, after a record
\* was cleaned, a selection was set and the revision was incremented
C5_Witness ==
    /\ lastCall.op = "remove" /\ lastCall.rep /\ thrown = "none"
    /\ lastCall.id \in {registrationOrder[n] : n \in 1..Len(registrationOrder)}
    /\ \E h \in 1..Len(cleanCalls) : cleanCalls[h] = 1
    /\ _selection # NoSelection
    /\ _revision > 0

-----------------------------------------------------------------------------
(* Kinds: groups referenced by ensureKind, addKindMetadata and addStory,   *)
(* emptied by removeStoryKind and registered again.                        *)

KindNames == {"a", "b", "c"}

KindStories ==
    {PlainStory("a--1", "a", "1", EmptyMap),
     PlainStory("b--1", "b", "1", EmptyMap)}

KindParameters == {Map1("docsOnly", Leaf("true"))}

NextKinds ==
    \/ \E kind \in KindNames : ensureKindCall(kind) /\ Unobserved
    \/ \E kind \in KindNames, parameters \in KindParameters :
          addKindMetadata(kind, parameters, <<>>) /\ Unobserved
    \/ \E story \in KindStories :
          addStory(story, FALSE) /\ ObserveRegistration(story.id)
    \/ \E story \in KindStories : remove(story.id, FALSE) /\ Unobserved
    \/ \E kind \in KindNames : removeStoryKind(kind, FALSE) /\ Unobserved

SpecKinds == Init /\ [][NextKinds]_vars

\* C6: a group's order is assigned once, at its first reference by ensureKind,
\* addKindMetadata or addStory, as the number of groups known at that moment; the
\* orders are pairwise distinct; and a group keeps its entry and its order in
\* every later step, whatever is removed, added or registered again.
C6_KindOrderStable ==
    /\ [](\A k1, k2 \in DOMAIN _kinds : k1 # k2 => _kinds[k1].order # _kinds[k2].order)
    /\ [][(lastCall'.op \in {"ensureKind", "addKindMetadata", "addStory"} /\ thrown' = "none")
            => lastCall'.kind \in DOMAIN _kinds']_vars
    /\ [][/\ DOMAIN _kinds \subseteq DOMAIN _kinds'
          /\ \A kind \in DOMAIN _kinds' :
                _kinds'[kind].order = IF kind \in DOMAIN _kinds
                                      THEN _kinds[kind].order
                                      ELSE Cardinality(DOMAIN _kinds)]_vars

\* C6 witness: group "a", seen second, was emptied by removeStoryKind and its
\* story has just been registered again; the group still has order 1
C6_Witness ==
    /\ lastCall.op = "addStory" /\ lastCall.kind = "a" /\ thrown = "none"
    /\ DOMAIN _kinds = KindNames
    /\ _kinds["a"].order = 1
    /\ Len(cleanCalls) >= 2 /\ cleanCalls[1] = 1
    /\ registrationOrder = <<"a--1">>

\* C20: in every reachable state the kind of every registered story is a key of
\* _kinds with an order, after any sequence of ensureKind, addKindMetadata,
\* addStory, remove and removeStoryKind, and no step deletes a key of _kinds: the
\* order lookups of extract() and getStorybook() are defined for every story.
C20_KindOfStoryKnown ==
    /\ [](\A i \in 1..Len(_stories) :
            /\ _stories[i].kind \in DOMAIN _kinds
            /\ _kinds[_stories[i].kind].order \in 0..(Cardinality(DOMAIN _kinds) - 1))
    /\ [][DOMAIN _kinds \subseteq DOMAIN _kinds']_vars

\* C20 witness: with a--1 and b--1 registered, group a was removed: its entry
\* stays, cleared, and b--1 still finds its group
C20_Witness ==
    /\ lastCall.op = "removeStoryKind" /\ lastCall.kind = "a" /\ thrown = "none"
    /\ Ids(_stories) = {"b--1"}
    /\ cleanCalls = <<1, 0>>
    /\ DOMAIN _kinds = {"a", "b"}
    /\ _kinds["a"].parameters = EmptyMap
    /\ _kinds["b"].parameters # EmptyMap

-----------------------------------------------------------------------------
(* Metadata: global and kind-level additions and parameter enhancers,      *)
(* followed by registrations.                                              *)

Map2(key1, value1, key2, value2) ==
    [k \in {key1, key2} |-> IF k = key1 THEN value1 ELSE value2]

MetaGlobalParameters ==
    {Map1("options", Obj(Map1("theme", Leaf("dark")))),
     Map2("options", Obj(Map1("theme", Leaf("light"))), "layout", Leaf("centered"))}

MetaKindParameters ==
    {Map1("options", Obj(Map1("panel", Leaf("right")))),
     Map2("options", Leaf("none"), "layout", Leaf("padded"))}

MetaKinds == {"a"}

MetaStories ==
    {[id |-> "a--1", kind |-> "a", name |-> "1",
      parameters |-> Map1("options", Obj(Map1("panel", Leaf("bottom")))),
      decorators |-> <<"withStory">>]}

MetaEnhancers == {"setOptions", "seenOptions"}

\* an enhancer is registered once
NotRegistered(enhancer) ==
    \A n \in 1..Len(_parameterEnhancers) : _parameterEnhancers[n] # enhancer

NextMeta ==
    \/ \E parameters \in MetaGlobalParameters :
          addGlobalMetadata(parameters, <<"withTheme">>) /\ ObserveMetadata("", parameters)
    \/ \E kind \in MetaKinds, parameters \in MetaKindParameters :
          addKindMetadata(kind, parameters, <<"withKind">>) /\ ObserveMetadata(kind, parameters)
    \/ \E enhancer \in MetaEnhancers :
          NotRegistered(enhancer) /\ addParameterEnhancer(enhancer) /\ Unobserved
    \/ \E story \in MetaStories :
          addStory(story, FALSE) /\ ObserveRegistration(story.id)

SpecMeta == Init /\ [][NextMeta]_vars

\* merge(...) of the parameters of the additions made at one level (kind "" is
\* the global level), in the order of the calls
RECURSIVE MergedLevel(_, _)
MergedLevel(calls, kind) ==
    IF calls = <<>> THEN EmptyMap
    ELSE LET earlier == MergedLevel(SubSeq(calls, 1, Len(calls) - 1), kind)
             last == calls[Len(calls)]
         IN IF last.kind = kind THEN Combine2(earlier, last.parameters) ELSE earlier

\* the first n enhancers applied in registration order, each result shallow-merged
\* over the parameters accumulated so far
RECURSIVE EnhancedInOrder(_, _, _)
EnhancedInOrder(n, story, parameters) ==
    IF n = 0 THEN parameters
    ELSE LET sofar == EnhancedInOrder(n - 1, story, parameters)
             result == ApplyEnhancer(_parameterEnhancers[n],
                                     [id |-> story.id, kind |-> story.kind, name |-> story.name],
                                     sofar)
         IN [k \in (DOMAIN sofar) \cup (DOMAIN result) |->
               IF k \in DOMAIN result THEN result[k] ELSE sofar[k]]

\* C7: whatever addGlobalMetadata and addKindMetadata calls came before it, in
\* whatever interleaving, addStory stores parameters equal to
\* merge(globalParameters, groupParameters, storyParameters), where each level is
\* the merge of that level's additions in their own order, with the enhancers then
\* applied in registration order, each result shallow-merged over the accumulated
\* parameters.
C7_ResolvedParameters ==
    [][\A story \in MetaStories :
          (lastCall'.op = "addStory" /\ lastCall'.id = story.id /\ thrown' = "none")
             => _stories'[IndexOf(_stories', story.id)].parameters
                  = EnhancedInOrder(Len(_parameterEnhancers), story,
                       Combine2(Combine2(MergedLevel(metaCalls, ""),
                                         MergedLevel(metaCalls, story.kind)),
                                story.parameters))]_vars

\* C7 witness: a story has just been registered after a kind-level addition that
\* came between two global additions, with two enhancers registered
C7_Witness ==
    /\ lastCall.op = "addStory" /\ thrown = "none"
    /\ Len(_parameterEnhancers) = 2
    /\ Len(metaCalls) = 3
    /\ metaCalls[1].kind = "" /\ metaCalls[2].kind = "a" /\ metaCalls[3].kind = ""
    /\ metaCalls[1].parameters # metaCalls[3].parameters

-----------------------------------------------------------------------------
(* The channel: a store constructed with a channel, its selection, error   *)
(* and argument state, and what the channel receives.                      *)

ChannelSelections ==
    {[storyId |-> "a--1", viewMode |-> "story"], [storyId |-> "a--1", viewMode |-> "docs"]}

ChannelErrors == {"Error: boom"}

ChannelGlobalArgs == {Map1("a", Leaf("1")), Map1("b", Leaf("2")), Map1("a", Leaf("3"))}

ChannelStories ==
    {PlainStory("a--1", "a", "1", Map1("args", Obj(Map1("x", Leaf("1")))))}

ChannelStoryArgs == {Map1("x", Leaf("2"))}

InitChannel == InitStore /\ _channel = TRUE

NextChannel ==
    \/ startConfiguring /\ Unobserved
    \/ finishConfiguring /\ Unobserved
    \/ \E selection \in ChannelSelections : setSelection(selection) /\ Unobserved
    \/ \E err \in ChannelErrors : setError(err) /\ Unobserved
    \/ \E newGlobalArgs \in ChannelGlobalArgs : setGlobalArgs(newGlobalArgs) /\ Unobserved
    \/ \E id \in {"a--1", "a--2"}, newArgs \in ChannelStoryArgs :
          setStoryArgs(id, newArgs) /\ Unobserved
    \/ \E story \in ChannelStories :
          addStory(story, FALSE) /\ ObserveRegistration(story.id)

SpecChannel == InitChannel /\ [][NextChannel]_vars

\* the positions of the emissions of a type
Emissions(type) == {n \in 1..Len(emitted) : emitted[n].type = type}

\* one setSelection was made, while configuring (each call emits one
\* CURRENT_STORY_WAS_SET), then one finishConfiguring() (each call pushes one
\* SET_STORIES), and nothing else has emitted
SelectionThenFinish ==
    /\ lastCall.op = "finishConfiguring"
    /\ Cardinality(Emissions("CURRENT_STORY_WAS_SET")) = 1
    /\ Cardinality(Emissions("SET_STORIES")) = 1
    /\ \A n \in 1..Len(emitted) :
          /\ emitted[n].by \in {"setSelection", "finishConfiguring"}
          /\ emitted[n].by = "setSelection" => emitted[n].cfg

\* C2, as claimed: one setSelection while configuring, then finishConfiguring():
\* the channel receives exactly one RENDER_CURRENT_STORY and exactly one
\* CURRENT_STORY_WAS_SET, the render emission first and the selection-was-set
\* emission second.
C2_AsClaimed ==
    SelectionThenFinish =>
       /\ Cardinality(Emissions("RENDER_CURRENT_STORY")) = 1
       /\ Cardinality(Emissions("CURRENT_STORY_WAS_SET")) = 1
       /\ \A r \in Emissions("RENDER_CURRENT_STORY"), w \in Emissions("CURRENT_STORY_WAS_SET") :
             r < w

\* C2, amended: one setSelection while configuring, then finishConfiguring(): the
\* channel receives exactly one CURRENT_STORY_WAS_SET and exactly one
\* RENDER_CURRENT_STORY, the selection-was-set emission first and the render
\* emission second.
C2_SelectionThenRender ==
    SelectionThenFinish =>
       /\ Cardinality(Emissions("RENDER_CURRENT_STORY")) = 1
       /\ Cardinality(Emissions("CURRENT_STORY_WAS_SET")) = 1
       /\ \A r \in Emissions("RENDER_CURRENT_STORY"), w \in Emissions("CURRENT_STORY_WAS_SET") :
             w < r
       /\ emitted[Len(emitted)].type = "RENDER_CURRENT_STORY"

\* C2 witness: the scenario has run
C2_Witness ==
    /\ SelectionThenFinish
    /\ _selection \in ChannelSelections
    /\ ~_configuring

\* the emissions from a setSelection made while configuring, at position n, up to
\* and including those of the finishConfiguring() that ends the phase; the empty
\* set while the phase has not ended
DeferredWindow(n) ==
    LET pushes == {m \in n..Len(emitted) :
                      emitted[m].type = "SET_STORIES" /\ emitted[m].by = "finishConfiguring"}
    IN IF pushes = {} THEN {}
       ELSE n..((CHOOSE m \in pushes : \A o \in pushes : m <= o) + 1)

\* the positions of the setSelection calls made while configuring
DeferredSelections ==
    {n \in Emissions("CURRENT_STORY_WAS_SET") : emitted[n].cfg}

\* C3, as claimed: for every setSelection made while configuring, under any
\* interleaving of setSelection, setError and arg changes, exactly one
\* RENDER_CURRENT_STORY is emitted from that call up to and including the
\* finishConfiguring() that ends the phase.
C3_AsClaimed ==
    \A n \in DeferredSelections :
       DeferredWindow(n) # {}
          => Cardinality(DeferredWindow(n) \cap Emissions("RENDER_CURRENT_STORY")) = 1

\* C3, amended: for every setSelection made while configuring, from that call up
\* to and including the finishConfiguring() that ends the phase, setSelection
\* emits no RENDER_CURRENT_STORY, finishConfiguring() emits exactly one, as its
\* last emission, and the only other RENDER_CURRENT_STORY emissions are those of
\* the setError calls in between, one each.
C3_DeferredRender ==
    \A n \in DeferredSelections :
       LET window == DeferredWindow(n)
           renders == window \cap Emissions("RENDER_CURRENT_STORY")
       IN window # {} =>
             /\ \A m \in window : m <= Len(emitted)
             /\ Cardinality({m \in renders : emitted[m].by # "setError"}) = 1
             /\ \A m \in renders :
                   emitted[m].by # "setError"
                      => /\ emitted[m].by = "finishConfiguring"
                         /\ \A o \in window : o <= m

\* C3 witness: a selection was set while configuring, setError was called, and
\* finishConfiguring() has ended the phase
C3_Witness ==
    \E n \in DeferredSelections :
       /\ DeferredWindow(n) # {}
       /\ \E m \in DeferredWindow(n) : emitted[m].by = "setError"
       /\ \E m \in DeferredWindow(n) : emitted[m].by = "finishConfiguring"
                                        /\ emitted[m].type = "RENDER_CURRENT_STORY"

\* C8: setGlobalArgs returns in every phase, shallow-merges the new global args
\* into the old ones (a key it supplies takes the new value, every other key
\* keeps its value) and emits exactly one GLOBAL_ARGS_CHANGED, carrying the full
\* resulting global args.
C8_SetGlobalArgs ==
    [][lastCall'.op = "setGlobalArgs" =>
         /\ thrown' = "none"
         /\ \E partial \in ChannelGlobalArgs :
               /\ DOMAIN _globalArgs' = (DOMAIN _globalArgs) \cup (DOMAIN partial)
               /\ \A k \in DOMAIN _globalArgs' :
                     _globalArgs'[k] = IF k \in DOMAIN partial THEN partial[k]
                                       ELSE _globalArgs[k]
         /\ Len(emitted') = Len(emitted) + 1
         /\ SubSeq(emitted', 1, Len(emitted)) = emitted
         /\ emitted'[Len(emitted')].type = "GLOBAL_ARGS_CHANGED"
         /\ emitted'[Len(emitted')].args = <<_globalArgs'>>]_vars

\* C8 witness: setGlobalArgs({a: 1}) while configuring and setGlobalArgs({b: 2})
\* after finishConfiguring() have left the global args { a: 1, b: 2 }
C8_Witness ==
    /\ lastCall.op = "setGlobalArgs" /\ thrown = "none" /\ ~_configuring
    /\ _globalArgs = Map2("a", Leaf("1"), "b", Leaf("2"))
    /\ Len(emitted) = 4
    /\ emitted[1].type = "GLOBAL_ARGS_CHANGED" /\ emitted[1].cfg
    /\ emitted[1].args = <<Map1("a", Leaf("1"))>>
    /\ emitted[4].type = "GLOBAL_ARGS_CHANGED" /\ ~emitted[4].cfg
    /\ emitted[4].args = <<_globalArgs>>

-----------------------------------------------------------------------------
(* Sorting: stories that declare parameters.options, with and without a    *)
(* storySort, registered in any order.                                     *)

SortStories ==
    {PlainStory("a--1", "a", "1", Map1("options", Obj(Map1("theme", Leaf("dark"))))),
     PlainStory("a--2", "a", "2", EmptyMap),
     PlainStory("a--2", "a", "2",
                Map2("options", Obj(Map1("storySort", Obj(Map1("method", Leaf("alphabetical"))))),
                     "args", Obj(Map1("x", Leaf("1"))))),
     PlainStory("b--1", "b", "1",
                Map1("options", Obj(Map1("storySort", Leaf("fn:idDescending")))))}

SortIds == {"a--1", "a--2", "b--1"}

NextSort ==
    \/ \E kind \in RegistryKinds : ensureKindCall(kind) /\ Unobserved
    \/ \E story \in SortStories : addStory(story, FALSE) /\ ObserveRegistration(story.id)
    \/ \E id \in SortIds : remove(id, FALSE) /\ Unobserved

SpecSort == Init /\ [][NextSort]_vars

\* the registered stories that declare parameters.options.storySort
Declaring == {i \in 1..Len(_stories) : Truthy(StorySortOf(_stories[i].parameters))}

\* the comparator a declared storySort stands for
DeclaredCompare(storySortParameter, s1, s2) ==
    IF IsFunctionValue(storySortParameter)
    THEN ApplySortFn(storySortParameter, s1, s2)
    ELSE storySort(storySortParameter, s1, s2)

\* result holds the registered stories, none before one it compares greater than,
\* and those that compare equal in their order in the registry
StablySorted(result, Compare(_, _)) ==
    /\ Len(result) = Len(_stories)
    /\ KeysOf(result) = Ids(_stories)
    /\ \A m, n \in 1..Len(result) :
          m < n => /\ Compare(result[m], result[n]) <= 0
                   /\ Compare(result[m], result[n]) = 0
                        => IndexOf(_stories, result[m].id) < IndexOf(_stories, result[n].id)

\* C11, as claimed: whenever any registered story declares
\* parameters.options.storySort, not only the first one found with
\* parameters.options, extract() returns all stories sorted stably with the
\* declared comparator; when no registered story declares one, it returns them
\* sorted stably by their group's order.
C11_AsClaimed ==
    LET result == extract(_stories, _kinds, TRUE)
    IN IF Declaring # {}
       THEN \E i \in Declaring :
               StablySorted(result,
                  LAMBDA s1, s2 : DeclaredCompare(StorySortOf(_stories[i].parameters), s1, s2))
       ELSE StablySorted(result, LAMBDA s1, s2 : _kinds[s1.kind].order - _kinds[s2.kind].order)

\* C18: addStory with an id that is already registered returns; the registry then
\* holds exactly one record for the id, the new one, with the parameters and the
\* initial args of the new registration, every other record is as before, and
\* clean() is not invoked on the hooks of the record it replaces.
C18_LastWriteWins ==
    [][(lastCall'.op = "addStory" /\ lastCall'.id \in Ids(_stories)) =>
         LET id == lastCall'.id
             i == IndexOf(_stories, id)
         IN /\ thrown' = "none"
            /\ Cardinality({j \in 1..Len(_stories') : _stories'[j].id = id}) = 1
            /\ Len(_stories') = Len(_stories)
            /\ \A j \in 1..Len(_stories) : j # i => _stories'[j] = _stories[j]
            /\ _stories'[i].hooks = Len(cleanCalls')
            /\ _stories'[i].hooks # _stories[i].hooks
            /\ \E story \in SortStories :
                  /\ story.id = id
                  /\ _stories'[i].parameters = story.parameters
                  /\ _stories'[i].args = InitialArgs(story.parameters)
            /\ cleanCalls' = Append(cleanCalls, 0)]_vars

\* C18 witness: a--2, registered without parameters, has been registered again
\* with options and args; the registry holds the new record and the hooks of the
\* old one were not cleaned
C18_Witness ==
    /\ lastCall.op = "addStory" /\ lastCall.id = "a--2" /\ thrown = "none"
    /\ registrationOrder = <<"a--1", "a--2">>
    /\ Len(_stories) = 2
    /\ _stories[2].id = "a--2" /\ _stories[2].hooks = 3
    /\ _stories[2].args = Map1("x", Leaf("1"))
    /\ cleanCalls = <<0, 0, 0>>

-----------------------------------------------------------------------------
(* Enhancers: parameter enhancers added before, between and after the      *)
(* registrations and removals.                                             *)

EnhancerStories ==
    {PlainStory("a--1", "a", "1", Map1("options", Obj(Map1("panel", Leaf("bottom"))))),
     PlainStory("a--2", "a", "2", EmptyMap),
     PlainStory("b--1", "b", "1", Map1("layout", Leaf("centered")))}

NextEnhancers ==
    \/ \E enhancer \in MetaEnhancers :
          NotRegistered(enhancer) /\ addParameterEnhancer(enhancer) /\ Unobserved
    \/ \E story \in EnhancerStories : addStory(story, FALSE) /\ ObserveRegistration(story.id)
    \/ \E id \in RegistryIds : remove(id, FALSE) /\ Unobserved
    \/ \E kind \in RegistryKinds : removeStoryKind(kind, FALSE) /\ Unobserved

SpecEnhancers == Init /\ [][NextEnhancers]_vars

\* C12, as claimed: addParameterEnhancer fails, leaving the enhancer list
\* unchanged, in every state reached after at least one addStory has succeeded,
\* also when every registered story has since been removed by remove or
\* removeStoryKind; it succeeds only while no story has ever been registered.
C12_AsClaimed ==
    [][lastCall'.op = "addParameterEnhancer" =>
         IF registrationOrder # <<>>
         THEN /\ thrown' # "none"
              /\ _parameterEnhancers' = _parameterEnhancers
         ELSE /\ thrown' = "none"
              /\ Len(_parameterEnhancers') = Len(_parameterEnhancers) + 1]_vars

\* C17: in every reachable state, after any sequence of addParameterEnhancer,
\* addStory, remove and removeStoryKind, the parameters of every story in the
\* registry are those its registration resolves with exactly the enhancer list the
\* store holds now, same enhancers in the same order.
C17_SameEnhancers ==
    \A i \in 1..Len(_stories) :
       \E story \in EnhancerStories :
          /\ story.id = _stories[i].id
          /\ _stories[i].parameters
                = EnhancedInOrder(Len(_parameterEnhancers), story, story.parameters)

\* C17 witness: the store holds both enhancers and two stories, one of them
\* registered first of all, removed, and registered again
C17_Witness ==
    /\ Len(_parameterEnhancers) = 2
    /\ Len(_stories) = 2
    /\ cleanCalls[1] = 1
    /\ \E i \in 1..Len(_stories) :
          /\ _stories[i].id = registrationOrder[1]
          /\ _stories[i].hooks = 3
          /\ "seen" \in DOMAIN _stories[i].parameters

-----------------------------------------------------------------------------
(* Story args: two registered stories and an id that is not registered,    *)
(* their args changed while configuring and after, on a store with a       *)
(* channel.                                                                *)

ArgsStories ==
    {PlainStory("a--1", "a", "1", Map1("args", Obj(Map1("x", Leaf("1"))))),
     PlainStory("b--1", "b", "1",
                Map1("args", Obj(Map2("x", Leaf("1"), "y", Leaf("1")))))}

ArgsIds == {"a--1", "b--1", "a--2"}

ArgsPartials == {Map1("x", Leaf("2")), Map1("y", Leaf("3"))}

NextArgs ==
    \/ finishConfiguring /\ Unobserved
    \/ \E story \in ArgsStories : addStory(story, FALSE) /\ ObserveRegistration(story.id)
    \/ \E id \in ArgsIds, newArgs \in ArgsPartials : setStoryArgs(id, newArgs) /\ Unobserved

SpecArgs == InitChannel /\ [][NextArgs]_vars

\* C13: setStoryArgs(id, partial) on an id that is not registered fails with the
\* not-found error, changes no story's args and emits nothing; on a registered id
\* it returns in every phase, shallow-merges partial into that story's args and
\* changes nothing else of the registry, and emits exactly one
\* STORY_ARGS_CHANGED carrying the id and the resulting args.
C13_SetStoryArgs ==
    [][lastCall'.op = "setStoryArgs" =>
         IF lastCall'.id \notin Ids(_stories)
         THEN /\ thrown' = "No story for id"
              /\ _stories' = _stories
              /\ emitted' = emitted
         ELSE LET i == IndexOf(_stories, lastCall'.id)
                  old == _stories[i].args
                  new == _stories'[i].args
              IN /\ thrown' = "none"
                 /\ Len(_stories') = Len(_stories)
                 /\ \A j \in 1..Len(_stories) : j # i => _stories'[j] = _stories[j]
                 /\ _stories'[i] = [_stories[i] EXCEPT !.args = new]
                 /\ \E partial \in ArgsPartials :
                       /\ DOMAIN new = (DOMAIN old) \cup (DOMAIN partial)
                       /\ \A k \in DOMAIN new :
                             new[k] = IF k \in DOMAIN partial THEN partial[k] ELSE old[k]
                 /\ Len(emitted') = Len(emitted) + 1
                 /\ SubSeq(emitted', 1, Len(emitted)) = emitted
                 /\ emitted'[Len(emitted')].type = "STORY_ARGS_CHANGED"
                 /\ emitted'[Len(emitted')].args = <<lastCall'.id, new>>]_vars

\* C13 witness: after finishConfiguring(), setStoryArgs('b--1', { y: 3 }) has
\* returned: b--1 keeps its x, a--1 keeps its args, and the channel has the event
C13_Witness ==
    /\ lastCall.op = "setStoryArgs" /\ lastCall.id = "b--1" /\ thrown = "none"
    /\ ~_configuring
    /\ Ids(_stories) = {"a--1", "b--1"}
    /\ _stories[IndexOf(_stories, "b--1")].args = Map2("x", Leaf("1"), "y", Leaf("3"))
    /\ _stories[IndexOf(_stories, "a--1")].args = Map1("x", Leaf("1"))
    /\ emitted[Len(emitted)].args = <<"b--1", Map2("x", Leaf("1"), "y", Leaf("3"))>>

-----------------------------------------------------------------------------
(* Rendering: the stories' storyFn called between argument changes and the *)
(* removal of groups, on a store with a channel.                           *)

RenderStories ==
    {PlainStory("a--1", "a", "1", Map1("args", Obj(Map1("x", Leaf("1"))))),
     PlainStory("b--1", "b", "1", EmptyMap)}

RenderIds == {"a--1", "b--1"}

\* the story whose args the manager changes
RenderArgIds == {"a--1"}

RenderStoryArgs == {Map1("x", Leaf("2"))}

RenderGlobalArgs == {Map1("g", Leaf("1"))}

NextRender ==
    \/ \E story \in RenderStories : addStory(story, FALSE) /\ ObserveRegistration(story.id)
    \/ \E kind \in RegistryKinds : removeStoryKind(kind, FALSE) /\ Unobserved
    \/ \E id \in RenderArgIds, newArgs \in RenderStoryArgs :
          Len(emitted) < MaxArgChanges /\ setStoryArgs(id, newArgs) /\ Unobserved
    \/ \E newGlobalArgs \in RenderGlobalArgs :
          Len(emitted) < MaxArgChanges /\ setGlobalArgs(newGlobalArgs) /\ Unobserved
    \/ \E id \in RenderIds : storyFn(id) /\ Unobserved

SpecRender == InitChannel /\ [][NextRender]_vars

\* C19: every call of the storyFn of a story in the registry returns and passes
\* the record's current args and the store's current global args, as all
\* setStoryArgs and setGlobalArgs calls so far have left them, also when
\* removeStoryKind on another group has replaced the store's map since the story
\* was registered.
C19_LiveArgs ==
    [][lastCall'.op = "storyFn" =>
         LET i == IndexOf(_stories, lastCall'.id)
         IN /\ thrown' = "none"
            /\ rendered'.id = lastCall'.id
            /\ rendered'.hooks = _stories[i].hooks
            /\ rendered'.args = _stories[i].args
            /\ rendered'.globalArgs = _globalArgs]_vars

\* C19 witness: a--1 was registered, removeStoryKind('b') replaced the map, then
\* setStoryArgs and setGlobalArgs changed the args, and storyFn passed the new ones
C19_Witness ==
    /\ lastCall.op = "storyFn" /\ thrown = "none"
    /\ \E i \in 1..Len(_stories) :
          /\ _stories[i].id = "a--1"
          /\ ~captured[_stories[i].hooks].live
          /\ _stories[i].args = Map1("x", Leaf("2"))
          /\ rendered.args = _stories[i].args
          /\ rendered.hooks = _stories[i].hooks
    /\ rendered.globalArgs = Map1("g", Leaf("1"))
    /\ emitted[1].type = "GLOBAL_ARGS_CHANGED"
    /\ emitted[2].type = "STORY_ARGS_CHANGED"

-----------------------------------------------------------------------------
(* Decoration: one story rendered, changed, removed and registered again.  *)

DecorateStories ==
    {PlainStory("a--1", "a", "1", Map1("args", Obj(Map1("x", Leaf("1")))))}

DecorateIds == {"a--1"}

DecorateParameters == {Map1("layout", Leaf("centered"))}

NextDecorate ==
    \/ \E story \in DecorateStories : addStory(story, FALSE) /\ ObserveRegistration(story.id)
    \/ \E id \in DecorateIds : remove(id, FALSE) /\ Unobserved
    \/ \E id \in DecorateIds, newArgs \in RenderStoryArgs :
          Len(emitted) < MaxArgChanges /\ setStoryArgs(id, newArgs) /\ Unobserved
    \/ \E newGlobalArgs \in RenderGlobalArgs :
          Len(emitted) < MaxArgChanges /\ setGlobalArgs(newGlobalArgs) /\ Unobserved
    \/ \E parameters \in DecorateParameters :
          addKindMetadata("a", parameters, <<>>) /\ Unobserved
    \/ \E id \in DecorateIds : getDecorated(id) /\ Unobserved
    \/ \E id \in DecorateIds : storyFn(id) /\ Unobserved

SpecDecorate == InitChannel /\ [][NextDecorate]_vars

\* C14: applyDecorators is invoked at most once for each story record, however
\* often its storyFn or getDecorated is called and whatever setStoryArgs,
\* setGlobalArgs or metadata calls come in between: not at all before the first
\* of these calls, once from then on, counted anew for the record that a removal
\* and a new addStory create; and no other operation invokes it.
C14_DecoratedOnce ==
    /\ [](\A h \in 1..Len(applyCalls) :
            applyCalls[h] = IF getDecoratedCache[h] THEN 1 ELSE 0)
    /\ [][\A h \in 1..Len(applyCalls) :
            applyCalls'[h] # applyCalls[h]
               => /\ lastCall'.op \in {"storyFn", "getDecorated"}
                  /\ ~getDecoratedCache[h]
                  /\ \E i \in 1..Len(_stories) :
                        _stories[i].hooks = h /\ _stories[i].id = lastCall'.id]_vars
    /\ [][(lastCall'.op = "addStory" /\ thrown' = "none")
            => applyCalls'[Len(applyCalls')] = 0]_vars

\* C14 witness: a--1 was rendered, its args and the global args were changed, it
\* was rendered again, removed, registered again and rendered: one applyDecorators
\* call for the first record, one for the new one
C14_Witness ==
    /\ lastCall.op = "storyFn" /\ lastCall.rep /\ thrown = "none"
    /\ Len(applyCalls) = 2
    /\ applyCalls[1] = 1 /\ cleanCalls[1] = 1
    /\ \E i \in 1..Len(_stories) :
          /\ _stories[i].id = "a--1" /\ _stories[i].hooks = 2
          /\ applyCalls[2] = 1
    /\ registrationOrder[1] = "a--1"
    /\ Len(emitted) = MaxArgChanges
    /\ _kinds["a"].parameters # EmptyMap

-----------------------------------------------------------------------------
(* Metadata after registration: global and kind-level additions, the       *)
(* global decorators cleared and groups removed while stories are          *)
(* registered.                                                             *)

FrameStories ==
    {[id |-> "a--1", kind |-> "a", name |-> "1",
      parameters |-> Map1("options", Obj(Map1("panel", Leaf("bottom")))),
      decorators |-> <<"withStory">>],
     [id |-> "b--1", kind |-> "b", name |-> "1", parameters |-> EmptyMap,
      decorators |-> <<>>]}

FrameGlobalParameters == {Map1("layout", Leaf("centered"))}

\* the group the loader adds metadata to
FrameKinds == {"a"}

FrameKindParameters == {Map1("options", Obj(Map1("panel", Leaf("right"))))}

NextFrame ==
    \/ \E parameters \in FrameGlobalParameters :
          addGlobalMetadata(parameters, <<"withTheme">>) /\ ObserveMetadata("", parameters)
    \/ \E kind \in FrameKinds, parameters \in FrameKindParameters :
          addKindMetadata(kind, parameters, <<>>) /\ Unobserved
    \/ clearGlobalDecorators /\ Unobserved
    \/ \E story \in FrameStories : addStory(story, FALSE) /\ ObserveRegistration(story.id)
    \/ \E kind \in RegistryKinds : removeStoryKind(kind, FALSE) /\ Unobserved

SpecFrame == Init /\ [][NextFrame]_vars

\* C15: addGlobalMetadata, addKindMetadata and clearGlobalDecorators leave every
\* registered story as it is, removeStoryKind leaves the stories of every other
\* group as they are, and the resolved parameters or the decorator chain of a
\* story that stays registered change only in a step that registers that story
\* again with addStory.
C15_RegisteredUntouched ==
    /\ [][lastCall'.op \in {"addGlobalMetadata", "addKindMetadata", "clearGlobalDecorators"}
            => _stories' = _stories]_vars
    /\ [][lastCall'.op = "removeStoryKind"
            => \A i \in 1..Len(_stories) :
                  _stories[i].kind # lastCall'.kind
                     => \E j \in 1..Len(_stories') : _stories'[j] = _stories[i]]_vars
    /\ [][\A i \in 1..Len(_stories), j \in 1..Len(_stories') :
            (/\ _stories[i].id = _stories'[j].id
             /\ \/ _stories[i].parameters # _stories'[j].parameters
                \/ _stories[i].decorators # _stories'[j].decorators)
               => /\ lastCall'.op = "addStory" /\ thrown' = "none"
                  /\ lastCall'.id = _stories[i].id]_vars

\* C15 witness: a--1 was registered before any metadata; since then global and
\* kind-level metadata were added, b--1 was registered under them, the global
\* decorators were cleared and group b removed, and a--1 still has the parameters
\* and the chain of its registration
C15_Witness ==
    /\ lastCall.op = "removeStoryKind" /\ lastCall.kind = "b" /\ thrown = "none"
    /\ Ids(_stories) = {"a--1"}
    /\ _stories[1].decorators = <<"withStory">>
    /\ _stories[1].parameters = Map1("options", Obj(Map1("panel", Leaf("bottom"))))
    /\ _globalMetadata.decorators = <<>>
    /\ Len(metaCalls) > 0
    /\ "layout" \in DOMAIN _globalMetadata.parameters
    /\ "options" \in DOMAIN _kinds["a"].parameters
    /\ cleanCalls = <<0, 1>>

-----------------------------------------------------------------------------
(* Phases: every kind of mutation attempted while configuring and after    *)
(* finishConfiguring(), on a store with a channel.                         *)

PhaseStories ==
    {PlainStory("a--1", "a", "1", Map1("args", Obj(Map1("x", Leaf("1")))))}

PhaseIds == {"a--1"}

PhaseKinds == {"a"}

NextPhase ==
    \/ finishConfiguring /\ Unobserved
    \/ \E parameters \in FrameGlobalParameters :
          addGlobalMetadata(parameters, <<"withTheme">>) /\ ObserveMetadata("", parameters)
    \/ \E kind \in PhaseKinds, parameters \in FrameKindParameters :
          addKindMetadata(kind, parameters, <<>>) /\ Unobserved
    \/ clearGlobalDecorators /\ Unobserved
    \/ \E story \in PhaseStories : addStory(story, FALSE) /\ ObserveRegistration(story.id)
    \/ \E id \in PhaseIds : remove(id, FALSE) /\ Unobserved
    \/ \E kind \in PhaseKinds : removeStoryKind(kind, FALSE) /\ Unobserved
    \/ \E id \in PhaseIds, newArgs \in RenderStoryArgs : setStoryArgs(id, newArgs) /\ Unobserved
    \/ \E newGlobalArgs \in RenderGlobalArgs : setGlobalArgs(newGlobalArgs) /\ Unobserved
    \/ \E selection \in RemovalSelections : setSelection(selection) /\ Unobserved

SpecPhase == InitChannel /\ [][NextPhase]_vars

\* C16, as claimed: once finishConfiguring() has cleared the configuring flag,
\* addStory, remove and removeStoryKind without allowUnsafe fail and leave the
\* registry unchanged, the metadata mutations addGlobalMetadata, addKindMetadata
\* and clearGlobalDecorators fail too and leave global and group metadata
\* unchanged, and setStoryArgs, setGlobalArgs and setSelection are not rejected.
C16_AsClaimed ==
    [][~_configuring =>
         /\ (lastCall'.op \in {"addStory", "remove", "removeStoryKind"} /\ ~lastCall'.allowUnsafe)
               => /\ thrown' # "none"
                  /\ UNCHANGED <<_stories, _kinds>>
         /\ lastCall'.op \in {"addGlobalMetadata", "addKindMetadata", "clearGlobalDecorators"}
               => /\ thrown' # "none"
                  /\ UNCHANGED <<_globalMetadata, _kinds>>
         /\ lastCall'.op \in {"setStoryArgs", "setGlobalArgs", "setSelection"}
               => thrown' \in {"none", "No story for id"}]_vars

====
